---- MODULE Spec2Model ----
(***************************************************************************)
(* Model of the NFL playoff Monte Carlo pipeline:                          *)
(*   build_elo_2025.py        - sequential Elo rating engine               *)
(*   simulate_playoffs_2025.py - bracket resolver and Monte Carlo counts   *)
(*                                                                         *)
(* Arithmetic.  Python floats are modelled in fixed point: a rating is an  *)
(* integer number of 1/RatingScale Elo points, a probability an integer    *)
(* number of 1/PScale.  10 ** x is computed from a table of 10^(k/8) with  *)
(* linear interpolation between table points.  The random generator of     *)
(* numpy is modelled as a deterministic generator with a small state.      *)
(***************************************************************************)
EXTENDS Integers, Sequences, FiniteSets, TLC

VARIABLES
    \* ---- simulate_playoffs_2025.py ----
    pc,          \* position of the playoff program
    seeds,       \* PLAYOFF_SEEDS: conference -> (seed -> team)
    seed,        \* args.seed: <<>> when absent (None), <<s>> when given
    num_sims,    \* args.sims
    hfa,         \* args.hfa
    elo_dict,    \* rating table loaded from the CSV: team -> rating
    rng,         \* state of the global numpy generator
    draws,       \* number of np.random.random() calls of this run
    sim,         \* loop variable of run_simulations = completed trials
    conf,        \* conference whose bracket is being resolved
    gi,          \* index of the next game inside the current round
    wc_winners,  \* conference -> list returned by simulate_wild_card
    div_winners, \* conference -> list returned by simulate_divisional
    results,     \* the results dictionary of simulate_one_bracket
    counts,      \* the defaultdict of run_simulations (keys in insertion order)
    prob_df,     \* the sorted probability table, <<>> until it is built
    games,       \* per-game trace of this run (what debug mode prints)
    run,         \* number of the program invocation (1 or 2)
    prev,        \* <<outputs of the previous invocation>>, <<>> in the first
    \* ---- build_elo_2025.py ----
    epc,         \* position of the rating program
    df,          \* the sorted regular-season games handed to update_elo_ratings
    k_factor,    \* args.k
    elo_hfa,     \* args.hfa of the rating program
    elo_ratings, \* team -> rating, mutated game by game
    elo_start,   \* the table returned by initialize_elo_ratings
    game_log,    \* audit records, one per processed game
    idx,         \* index of the next row of df
    \* ---- a caller of compute_win_probability ----
    wpc,         \* position of the caller
    wp_a,        \* rating A
    wp_b,        \* rating B
    wp_h,        \* the hfa argument
    wp_ab,       \* compute_win_probability(A, B, hfa, is_neutral=True)
    wp_ba        \* compute_win_probability(B, A, hfa, is_neutral=True)

simvars == <<pc, seeds, seed, num_sims, hfa, elo_dict, rng, draws, sim, conf, gi,
             wc_winners, div_winners, results, counts, prob_df, games, run, prev>>
elovars == <<epc, df, k_factor, elo_hfa, elo_ratings, elo_start, game_log, idx>>
probvars == <<wpc, wp_a, wp_b, wp_h, wp_ab, wp_ba>>
vars == <<simvars, elovars, probvars>>

IdleProb ==
    /\ wpc = "idle"
    /\ wp_a = 0
    /\ wp_b = 0
    /\ wp_h = 0
    /\ wp_ab = 0
    /\ wp_ba = 0

None == "None"

----------------------------------------------------------------------------
(* Bounds of the model *)

MaxSims == 2        \* largest --sims value
MaxSeed == 11       \* --seed ranges over 0..MaxSeed
MaxEntropy == 2     \* OS entropy values that seed numpy when --seed is absent
MaxRuns == 2        \* invocations of the program in one behaviour
MaxMatches == 3     \* length of the match history
MaxGrid == 16       \* ratings range over 1300, 1325, ..., 1300 + 25 * MaxGrid

----------------------------------------------------------------------------
(* Fixed-point scales *)

RatingScale == 1000   \* rating units per Elo point
PScale == 1000        \* probability units per 1.0
RngMod == 65536       \* number of generator states; u = state / RngMod

----------------------------------------------------------------------------
(* Generic helpers *)

Range(s) == {s[i] : i \in 1..Len(s)}

SetMax(S) == CHOOSE x \in S : \A y \in S : y <= x

SetMin(S) == CHOOSE x \in S : \A y \in S : x <= y

RECURSIVE SumOver(_, _)
SumOver(f, S) ==
    IF S = {} THEN 0
    ELSE LET x == CHOOSE y \in S : TRUE IN f[x] + SumOver(f, S \ {x})

RECURSIVE Pow10Int(_)
Pow10Int(n) == IF n = 0 THEN 1 ELSE 10 * Pow10Int(n - 1)

----------------------------------------------------------------------------
(* PLAYOFF_SEEDS *)

PLAYOFF_SEEDS ==
    [AFC |-> (1 :> "DEN" @@ 2 :> "NE" @@ 3 :> "JAX" @@ 4 :> "PIT" @@
              5 :> "HOU" @@ 6 :> "BUF" @@ 7 :> "LAC"),
     NFC |-> (1 :> "SEA" @@ 2 :> "CHI" @@ 3 :> "PHI" @@ 4 :> "CAR" @@
              5 :> "LA" @@ 6 :> "SF" @@ 7 :> "GB")]

Conferences == {"AFC", "NFC"}

SeedTeams(c) == {PLAYOFF_SEEDS[c][s] : s \in 1..7}

AllSeeded == SeedTeams("AFC") \cup SeedTeams("NFC")

----------------------------------------------------------------------------
(* compute_win_probability *)

\* 10^(k/8) * 1000 for k = 0..8
Pow10Table == <<1000, 1334, 1778, 2371, 3162, 4217, 5623, 7499, 10000>>

\* 10 ** (x / 400) * 1000, x in rating units
Pow10Of(x) ==
    LET span == 400 * RatingScale
        q    == x \div span
        r    == x % span
        cell == span \div 8
        k    == r \div cell
        f    == r % cell
        m    == Pow10Table[k + 1] +
                ((Pow10Table[k + 2] - Pow10Table[k + 1]) * f) \div cell
    IN  IF q >= 0 THEN m * Pow10Int(q) ELSE m \div Pow10Int(-q)

\* variant: is_neutral is ignored, the home advantage is always added
compute_win_probability_home(e_home, e_away, h, is_neutral) ==
    LET diff == (e_home + h * RatingScale) - e_away
    IN  (PScale * 1000) \div (1000 + Pow10Of(-diff))

compute_win_probability(e_home, e_away, h, is_neutral) ==
    LET diff == IF is_neutral THEN e_home - e_away
                ELSE (e_home + h * RatingScale) - e_away
    IN  (PScale * 1000) \div (1000 + Pow10Of(-diff))

----------------------------------------------------------------------------
(* The global numpy generator *)

\* np.random.seed(s): the generator state is a function of the seed only
seed_state(s) == (s * 2053 + 13) % RngMod

\* one np.random.random() call: the next state; the variate is state / RngMod
NextRng(r) == (r * 25173 + 13849) % RngMod

----------------------------------------------------------------------------
(* simulate_game *)

\* variant: the home team also wins when the variate equals p (<= for <)
simulate_game_le(team_home, team_away, elo, h, is_neutral, r) ==
    IF team_home \notin DOMAIN elo \/ team_away \notin DOMAIN elo
    THEN [ok |-> FALSE]
    ELSE LET p == compute_win_probability(elo[team_home], elo[team_away],
                                          h, is_neutral)
             u == NextRng(r)
         IN  [ok |-> TRUE, p |-> p, u |-> u, elo |-> elo,
              winner |-> IF u * PScale <= p * RngMod
                         THEN team_home ELSE team_away]

\* variant: the winner of a simulated game gains a rating point in elo_dict
simulate_game_rates_winner(team_home, team_away, elo, h, is_neutral, r) ==
    IF team_home \notin DOMAIN elo \/ team_away \notin DOMAIN elo
    THEN [ok |-> FALSE]
    ELSE LET p == compute_win_probability(elo[team_home], elo[team_away],
                                          h, is_neutral)
             u == NextRng(r)
             w == IF u * PScale < p * RngMod THEN team_home ELSE team_away
         IN  [ok |-> TRUE, p |-> p, u |-> u,
              elo |-> [elo EXCEPT ![w] = @ + RatingScale],
              winner |-> w]

\* the result of one call: the winner, p, the generator state after the
\* draw, and the rating dictionary as the call leaves it (it is passed by
\* reference and only read)
simulate_game(team_home, team_away, elo, h, is_neutral, r) ==
    IF team_home \notin DOMAIN elo \/ team_away \notin DOMAIN elo
    THEN [ok |-> FALSE]
    ELSE LET p == compute_win_probability(elo[team_home], elo[team_away],
                                          h, is_neutral)
             u == NextRng(r)
         IN  [ok |-> TRUE, p |-> p, u |-> u, elo |-> elo,
              winner |-> IF u * PScale < p * RngMod
                         THEN team_home ELSE team_away]

GameRecord(round, c, team_home, team_away, is_neutral, g) ==
    [round |-> round, conf |-> c, sim |-> sim, home |-> team_home,
     away |-> team_away, neutral |-> is_neutral, p |-> g.p, u |-> g.u,
     winner |-> g.winner]

\* an uncaught exception ends the program; nothing else changes
Raise ==
    /\ pc' = "error"
    /\ UNCHANGED <<seeds, seed, num_sims, hfa, elo_dict, rng, draws, sim, conf,
                   gi, wc_winners, div_winners, results, counts, prob_df,
                   games, run, prev>>

----------------------------------------------------------------------------
(* simulate_one_bracket: the empty results dictionary *)

EmptyResults ==
    [divisional |-> <<>>, conf_champ |-> <<>>, super_bowl |-> <<>>,
     champion |-> None]

NoWinners == [c \in Conferences |-> <<>>]

----------------------------------------------------------------------------
(* simulate_wild_card *)

\* variant: seed 5 hosts seed 4
matchups_5_hosts_4 == <<<<2, 7>>, <<3, 6>>, <<5, 4>>>>

\* variant: the (4,5) game is left out of the list
matchups_two_games == <<<<2, 7>>, <<3, 6>>>>

matchups == <<<<2, 7>>, <<3, 6>>, <<4, 5>>>>

WildCardGame ==
    /\ UNCHANGED <<elovars, probvars>>
    /\ pc = "wild_card"
    /\ LET sd        == seeds[conf]
           seed_home == matchups[gi][1]
           seed_away == matchups[gi][2]
       IN  IF 1 \notin DOMAIN sd \/ seed_home \notin DOMAIN sd
              \/ seed_away \notin DOMAIN sd
           THEN Raise
           ELSE LET g == simulate_game(sd[seed_home], sd[seed_away],
                                       elo_dict, hfa, FALSE, rng)
                    w == IF gi = 1 THEN <<sd[1]>> ELSE wc_winners[conf]
                IN  IF ~g.ok THEN Raise
                    ELSE /\ rng' = g.u
                         /\ elo_dict' = g.elo
                         /\ draws' = draws + 1
                         /\ games' = Append(games,
                                GameRecord("wild_card", conf, sd[seed_home],
                                           sd[seed_away], FALSE, g))
                         /\ wc_winners' =
                                [wc_winners EXCEPT ![conf] = Append(w, g.winner)]
                         /\ IF gi = Len(matchups)
                            THEN /\ results' = [results EXCEPT !.divisional =
                                        @ \o Append(w, g.winner)]
                                 /\ pc' = "divisional"
                                 /\ gi' = 1
                            ELSE /\ UNCHANGED <<results, pc>>
                                 /\ gi' = gi + 1
                         /\ UNCHANGED <<seeds, seed, num_sims, hfa,
                                        sim, conf, div_winners, counts,
                                        prob_df, run, prev>>

----------------------------------------------------------------------------
(* simulate_divisional *)

\* {team: seed for seed, team in seeds.items()}: the last seed of a team wins
team_to_seed(sd) ==
    [t \in {sd[s] : s \in DOMAIN sd} |->
        SetMax({s \in DOMAIN sd : sd[s] = t})]

\* [team_to_seed[team] for team in winners]; the code sorts the list, and
\* only takes its minimum, its maximum and a filter of it
remaining_seeds(winners, sd) ==
    [i \in 1..Len(winners) |-> team_to_seed(sd)[winners[i]]]

\* variant: seed 1 hosts the best remaining seed instead of the worst
divisional_pairing_best(wild_card_winners, sd) ==
    LET remaining   == Range(remaining_seeds(wild_card_winners, sd))
        lowest_seed == SetMin(remaining \ {1})
        other_seeds == {s \in remaining : s # 1 /\ s # lowest_seed}
    IN  IF other_seeds = {} THEN [ok |-> FALSE]
        ELSE [ok |-> TRUE,
              seed_1_team |-> sd[1],
              lowest_team |-> sd[lowest_seed],
              team_higher |-> sd[SetMin(other_seeds)],
              team_lower  |-> sd[SetMax(other_seeds)]]

\* the two pairings chosen by simulate_divisional
divisional_pairing(wild_card_winners, sd) ==
    LET remaining   == Range(remaining_seeds(wild_card_winners, sd))
        lowest_seed == SetMax(remaining)
        other_seeds == {s \in remaining : s # 1 /\ s # lowest_seed}
    IN  IF other_seeds = {} THEN [ok |-> FALSE]
        ELSE [ok |-> TRUE,
              seed_1_team |-> sd[1],
              lowest_team |-> sd[lowest_seed],
              team_higher |-> sd[SetMin(other_seeds)],
              team_lower  |-> sd[SetMax(other_seeds)]]

DivisionalGame ==
    /\ UNCHANGED <<elovars, probvars>>
    /\ pc = "divisional"
    /\ LET sd == seeds[conf]
           m  == divisional_pairing(wc_winners[conf], sd)
       IN  IF ~m.ok THEN Raise
           ELSE LET team_home == IF gi = 1 THEN m.seed_1_team ELSE m.team_higher
                    team_away == IF gi = 1 THEN m.lowest_team ELSE m.team_lower
                    g == simulate_game(team_home, team_away, elo_dict, hfa,
                                       FALSE, rng)
                    w == IF gi = 1 THEN <<>> ELSE div_winners[conf]
                IN  IF ~g.ok THEN Raise
                    ELSE /\ rng' = g.u
                         /\ elo_dict' = g.elo
                         /\ draws' = draws + 1
                         /\ games' = Append(games,
                                GameRecord("divisional", conf, team_home,
                                           team_away, FALSE, g))
                         /\ div_winners' =
                                [div_winners EXCEPT ![conf] = Append(w, g.winner)]
                         /\ IF gi = 2
                            THEN /\ results' = [results EXCEPT !.conf_champ =
                                        @ \o Append(w, g.winner)]
                                 /\ pc' = "conf_champ"
                                 /\ gi' = 1
                            ELSE /\ UNCHANGED <<results, pc>>
                                 /\ gi' = gi + 1
                         /\ UNCHANGED <<seeds, seed, num_sims, hfa,
                                        sim, conf, wc_winners, counts,
                                        prob_df, run, prev>>

----------------------------------------------------------------------------
(* simulate_conference_championship *)

\* variant: the worse seed hosts
conference_pairing_swapped(divisional_winners, sd) ==
    LET remaining == Range(remaining_seeds(divisional_winners, sd))
    IN  [team_home |-> sd[SetMax(remaining)],
         team_away |-> sd[SetMin(remaining)]]

conference_pairing(divisional_winners, sd) ==
    LET remaining == Range(remaining_seeds(divisional_winners, sd))
    IN  [team_home |-> sd[SetMin(remaining)],
         team_away |-> sd[SetMax(remaining)]]

ConferenceChampionshipGame ==
    /\ UNCHANGED <<elovars, probvars>>
    /\ pc = "conf_champ"
    /\ LET m == conference_pairing(div_winners[conf], seeds[conf])
           g == simulate_game(m.team_home, m.team_away, elo_dict, hfa,
                              FALSE, rng)
       IN  IF ~g.ok THEN Raise
           ELSE /\ rng' = g.u
                /\ elo_dict' = g.elo
                /\ draws' = draws + 1
                /\ games' = Append(games,
                       GameRecord("conf_champ", conf, m.team_home,
                                  m.team_away, FALSE, g))
                /\ results' = [results EXCEPT !.super_bowl =
                                   Append(@, g.winner)]
                /\ IF conf = "AFC"
                   THEN /\ conf' = "NFC"
                        /\ pc' = "wild_card"
                   ELSE /\ conf' = conf
                        /\ pc' = "super_bowl"
                /\ gi' = 1
                /\ UNCHANGED <<seeds, seed, num_sims, hfa, sim,
                               wc_winners, div_winners, counts, prob_df,
                               run, prev>>

----------------------------------------------------------------------------
(* run_simulations: the counters *)

ZeroCounts == [divisional |-> 0, conf_champ |-> 0, super_bowl |-> 0, champion |-> 0]

EmptyCounts == [keys |-> <<>>, val |-> <<>>]

\* counts[team][field] += 1 on the defaultdict
Bump(c, team, field) ==
    IF team \in DOMAIN c.val
    THEN [c EXCEPT !.val[team][field] = @ + 1]
    ELSE [keys |-> Append(c.keys, team),
          val  |-> (team :> [ZeroCounts EXCEPT ![field] = 1]) @@ c.val]

RECURSIVE BumpAll(_, _, _)
BumpAll(c, teams, field) ==
    IF teams = <<>> THEN c
    ELSE BumpAll(Bump(c, Head(teams), field), Tail(teams), field)

\* variant: the champion counter is bumped for both Super Bowl teams
update_counts_finalists(c, res) ==
    LET c1 == BumpAll(c, res.divisional, "divisional")
        c2 == BumpAll(c1, res.conf_champ, "conf_champ")
        c3 == BumpAll(c2, res.super_bowl, "super_bowl")
    IN  BumpAll(c3, res.super_bowl, "champion")

\* variant: the conf_champ and super_bowl loops write each other's counter
update_counts_swapped(c, res) ==
    LET c1 == BumpAll(c, res.divisional, "divisional")
        c2 == BumpAll(c1, res.conf_champ, "super_bowl")
        c3 == BumpAll(c2, res.super_bowl, "conf_champ")
    IN  IF res.champion # None THEN Bump(c3, res.champion, "champion") ELSE c3

\* the "Update counts" block of the loop body
update_counts(c, res) ==
    LET c1 == BumpAll(c, res.divisional, "divisional")
        c2 == BumpAll(c1, res.conf_champ, "conf_champ")
        c3 == BumpAll(c2, res.super_bowl, "super_bowl")
    IN  IF res.champion # None THEN Bump(c3, res.champion, "champion") ELSE c3

----------------------------------------------------------------------------
(* simulate_super_bowl, and the rest of the loop body of run_simulations *)

\* variant: the Super Bowl is played as a home game of the AFC champion
simulate_super_bowl_home(afc_champ, nfc_champ, elo, h, r) ==
    simulate_game(afc_champ, nfc_champ, elo, h, FALSE, r)

simulate_super_bowl(afc_champ, nfc_champ, elo, h, r) ==
    simulate_game(afc_champ, nfc_champ, elo, h, TRUE, r)

SuperBowlGame ==
    /\ UNCHANGED <<elovars, probvars>>
    /\ pc = "super_bowl"
    /\ LET afc_champ == results.super_bowl[1]
           nfc_champ == results.super_bowl[2]
           g == simulate_super_bowl(afc_champ, nfc_champ, elo_dict, hfa, rng)
       IN  IF ~g.ok THEN Raise
           ELSE LET res == [results EXCEPT !.champion = g.winner]
                IN  /\ rng' = g.u
                    /\ elo_dict' = g.elo
                    /\ draws' = draws + 1
                    /\ games' = Append(games,
                           GameRecord("super_bowl", "SB", afc_champ, nfc_champ,
                                      TRUE, g))
                    /\ results' = res
                    /\ counts' = update_counts(counts, res)
                    /\ sim' = sim + 1
                    /\ pc' = IF sim + 1 < num_sims THEN "bracket" ELSE "convert"
                    /\ UNCHANGED <<seeds, seed, num_sims, hfa, conf,
                                   gi, wc_winners, div_winners, prob_df, run,
                                   prev>>

\* entry of simulate_one_bracket for the next trial
StartBracket ==
    /\ UNCHANGED <<elovars, probvars>>
    /\ pc = "bracket"
    /\ pc' = "wild_card"
    /\ conf' = "AFC"
    /\ gi' = 1
    /\ results' = EmptyResults
    /\ wc_winners' = NoWinners
    /\ div_winners' = NoWinners
    /\ UNCHANGED <<seeds, seed, num_sims, hfa, elo_dict, rng, draws, sim,
                   counts, prob_df, games, run, prev>>

----------------------------------------------------------------------------
(* run_simulations: conversion to probabilities *)

\* count / num_sims, kept as an exact fraction
Pct(c, n) == [num |-> c, den |-> n]

prob_row(c, team, n) ==
    [team |-> team,
     pct_make_divisional |-> Pct(c.val[team].divisional, n),
     pct_make_conf_champ |-> Pct(c.val[team].conf_champ, n),
     pct_make_superbowl  |-> Pct(c.val[team].super_bowl, n),
     pct_win_superbowl   |-> Pct(c.val[team].champion, n)]

prob_data(c, n) == [i \in 1..Len(c.keys) |-> prob_row(c, c.keys[i], n)]

\* insert a row behind every row that is not smaller (all rows share den)
InsertRow(sorted, row) ==
    LET before == {i \in 1..Len(sorted) :
                     sorted[i].pct_win_superbowl.num >= row.pct_win_superbowl.num}
        k == IF before = {} THEN 0 ELSE SetMax(before)
    IN  SubSeq(sorted, 1, k) \o <<row>> \o SubSeq(sorted, k + 1, Len(sorted))

RECURSIVE sort_values(_)
\* sort_values('pct_win_superbowl', ascending=False), ties in input order
sort_values(rows) ==
    IF rows = <<>> THEN <<>>
    ELSE InsertRow(sort_values(SubSeq(rows, 1, Len(rows) - 1)), rows[Len(rows)])

ConvertToProbabilities ==
    /\ UNCHANGED <<elovars, probvars>>
    /\ pc = "convert"
    /\ IF counts.keys = <<>>
       THEN Raise      \* sort_values on a frame without columns: KeyError
       ELSE /\ prob_df' = sort_values(prob_data(counts, num_sims))
            /\ pc' = "done"
            /\ UNCHANGED <<seeds, seed, num_sims, hfa, elo_dict, rng, draws,
                           sim, conf, gi, wc_winners, div_winners, results,
                           counts, games, run, prev>>

----------------------------------------------------------------------------
(* main *)

\* variant: --seed is parsed but never applied
seed_generator_ignored(sd, r) == r

\* if args.seed is not None: np.random.seed(args.seed)
seed_generator(sd, r) == IF sd # <<>> THEN seed_state(sd[1]) ELSE r

Main ==
    /\ UNCHANGED <<elovars, probvars>>
    /\ pc = "main"
    /\ rng' = seed_generator(seed, rng)
    /\ pc' = IF 0 < num_sims THEN "bracket" ELSE "convert"
    /\ UNCHANGED <<seeds, seed, num_sims, hfa, elo_dict, draws, sim, conf, gi,
                   wc_winners, div_winners, results, counts, prob_df, games,
                   run, prev>>

\* the generator states numpy may start from when it seeds itself; the
\* first of them makes the first variate of a run exactly 0.5
EntropyStates == {seed_state(44198 + 37 * e) : e \in 0..MaxEntropy}

\* the same command line is run a second time, in a fresh process
Rerun ==
    /\ UNCHANGED <<elovars, probvars>>
    /\ pc = "done"
    /\ run < MaxRuns
    /\ prev' = <<[games |-> games, prob_df |-> prob_df]>>
    /\ run' = run + 1
    /\ rng' \in EntropyStates
    /\ pc' = "main"
    /\ draws' = 0
    /\ sim' = 0
    /\ conf' = "AFC"
    /\ gi' = 1
    /\ wc_winners' = NoWinners
    /\ div_winners' = NoWinners
    /\ results' = EmptyResults
    /\ counts' = EmptyCounts
    /\ prob_df' = <<>>
    /\ games' = <<>>
    /\ UNCHANGED <<seeds, seed, num_sims, hfa, elo_dict>>

----------------------------------------------------------------------------
(* Inputs of the playoff program *)

HfaValues == {0, 55}

EloEven == [t \in AllSeeded \cup {"DAL"} |-> 1500 * RatingScale]

EloSeason ==
    "DEN" :> 1652340 @@ "NE" :> 1618905 @@ "JAX" :> 1571220 @@ "PIT" :> 1524610 @@
    "HOU" :> 1603475 @@ "BUF" :> 1634080 @@ "LAC" :> 1566730 @@
    "SEA" :> 1661150 @@ "CHI" :> 1549860 @@ "PHI" :> 1612395 @@ "CAR" :> 1447525 @@
    "LA" :> 1641770 @@ "SF" :> 1598640 @@ "GB" :> 1557310 @@ "DAL" :> 1462085

\* a rating file that lacks a seeded team
EloMissing == [t \in DOMAIN EloSeason \ {"SEA"} |-> EloSeason[t]]

EloTables == {EloEven, EloSeason, EloMissing}

IdleElo ==
    /\ epc = "idle"
    /\ df = <<>>
    /\ k_factor = 0
    /\ elo_hfa = 0
    /\ elo_ratings = <<>>
    /\ elo_start = <<>>
    /\ game_log = <<>>
    /\ idx = 0

InitRun ==
    /\ pc = "main"
    /\ seed \in {<<>>} \cup {<<s>> : s \in 0..MaxSeed}
    /\ num_sims \in 0..MaxSims
    /\ hfa \in HfaValues
    /\ elo_dict \in EloTables
    /\ rng \in EntropyStates
    /\ draws = 0
    /\ sim = 0
    /\ conf = "AFC"
    /\ gi = 1
    /\ wc_winners = NoWinners
    /\ div_winners = NoWinners
    /\ results = EmptyResults
    /\ counts = EmptyCounts
    /\ prob_df = <<>>
    /\ games = <<>>
    /\ run = 1
    /\ prev = <<>>

Init ==
    /\ seeds = PLAYOFF_SEEDS
    /\ InitRun
    /\ IdleElo
    /\ IdleProb

Next ==
    \/ Main
    \/ StartBracket
    \/ WildCardGame
    \/ DivisionalGame
    \/ ConferenceChampionshipGame
    \/ SuperBowlGame
    \/ ConvertToProbabilities
    \/ Rerun

Spec == Init /\ [][Next]_vars

----------------------------------------------------------------------------
(* A Seeding table other than the shipped one *)

\* NE entered twice (seeds 2 and 7 of the AFC), LAC left out
DupSeeding ==
    [PLAYOFF_SEEDS EXCEPT !.AFC = [@ EXCEPT ![7] = "NE"]]

\* seed 5 of the NFC left out
MissingSeeding ==
    [PLAYOFF_SEEDS EXCEPT !.NFC =
        [s \in (1..7) \ {5} |-> PLAYOFF_SEEDS.NFC[s]]]

SeedingConfigs == {PLAYOFF_SEEDS, DupSeeding, MissingSeeding}

InitSeeding ==
    /\ seeds \in SeedingConfigs
    /\ InitRun
    /\ IdleElo
    /\ IdleProb

SpecSeeding == InitSeeding /\ [][Next]_vars

----------------------------------------------------------------------------
(* build_elo_2025.py *)

initial_elo == 1500

EloTeams == {"DEN", "NE", "SEA"}

\* final scores: a home win, an away win and a tie
ScorePairs == {<<24, 17>>, <<10, 13>>, <<20, 20>>}

Matches ==
    {m \in {[home_team |-> h, away_team |-> a,
              home_score |-> sc[1], away_score |-> sc[2]] :
                h \in EloTeams, a \in EloTeams, sc \in ScorePairs} :
        m.home_team # m.away_team}

Histories == UNION {[1..n -> Matches] : n \in 0..MaxMatches}

initialize_elo_ratings(games_df) ==
    [t \in {games_df[i].home_team : i \in 1..Len(games_df)} \cup
           {games_df[i].away_team : i \in 1..Len(games_df)} |->
        initial_elo * RatingScale]

elo_compute_win_probability(e_home, e_away, h) ==
    LET diff == (e_home + h * RatingScale) - e_away
    IN  (PScale * 1000) \div (1000 + Pow10Of(-diff))

\* variant: the away rating moves in the same direction as the home rating
elo_update_same_sign(ratings, row, k, h) ==
    LET e_home      == ratings[row.home_team]
        e_away      == ratings[row.away_team]
        p_home_win  == elo_compute_win_probability(e_home, e_away, h)
        actual_home == IF row.home_score > row.away_score THEN 1 ELSE 0
        delta       == (k * (actual_home * PScale - p_home_win) * RatingScale)
                           \div PScale
    IN  [home_team |-> row.home_team, away_team |-> row.away_team,
         home_score |-> row.home_score, away_score |-> row.away_score,
         elo_home_before |-> e_home, elo_away_before |-> e_away,
         p_home_win |-> p_home_win, actual_home_win |-> actual_home,
         delta |-> delta,
         elo_home_after |-> e_home + delta, elo_away_after |-> e_away + delta]

\* variant: every row is rated from the ratings of before the loop
elo_update_stale(ratings, row, k, h) ==
    LET e_home      == elo_start[row.home_team]
        e_away      == elo_start[row.away_team]
        p_home_win  == elo_compute_win_probability(e_home, e_away, h)
        actual_home == IF row.home_score > row.away_score THEN 1 ELSE 0
        delta       == (k * (actual_home * PScale - p_home_win) * RatingScale)
                           \div PScale
    IN  [home_team |-> row.home_team, away_team |-> row.away_team,
         home_score |-> row.home_score, away_score |-> row.away_score,
         elo_home_before |-> e_home, elo_away_before |-> e_away,
         p_home_win |-> p_home_win, actual_home_win |-> actual_home,
         delta |-> delta,
         elo_home_after |-> e_home + delta, elo_away_after |-> e_away - delta]

\* variant: a tie counts as a home win (>= instead of >)
elo_update_tie_home(ratings, row, k, h) ==
    LET e_home      == ratings[row.home_team]
        e_away      == ratings[row.away_team]
        p_home_win  == elo_compute_win_probability(e_home, e_away, h)
        actual_home == IF row.home_score >= row.away_score THEN 1 ELSE 0
        delta       == (k * (actual_home * PScale - p_home_win) * RatingScale)
                           \div PScale
    IN  [home_team |-> row.home_team, away_team |-> row.away_team,
         home_score |-> row.home_score, away_score |-> row.away_score,
         elo_home_before |-> e_home, elo_away_before |-> e_away,
         p_home_win |-> p_home_win, actual_home_win |-> actual_home,
         delta |-> delta,
         elo_home_after |-> e_home + delta, elo_away_after |-> e_away - delta]

\* the audit record of one row, computed from the ratings before the row
elo_update(ratings, row, k, h) ==
    LET e_home      == ratings[row.home_team]
        e_away      == ratings[row.away_team]
        p_home_win  == elo_compute_win_probability(e_home, e_away, h)
        actual_home == IF row.home_score > row.away_score THEN 1 ELSE 0
        delta       == (k * (actual_home * PScale - p_home_win) * RatingScale)
                           \div PScale
    IN  [home_team |-> row.home_team, away_team |-> row.away_team,
         home_score |-> row.home_score, away_score |-> row.away_score,
         elo_home_before |-> e_home, elo_away_before |-> e_away,
         p_home_win |-> p_home_win, actual_home_win |-> actual_home,
         delta |-> delta,
         elo_home_after |-> e_home + delta, elo_away_after |-> e_away - delta]

IdleSim ==
    /\ pc = "idle"
    /\ seeds = PLAYOFF_SEEDS
    /\ seed = <<>>
    /\ num_sims = 0
    /\ hfa = 0
    /\ elo_dict = <<>>
    /\ rng = 0
    /\ draws = 0
    /\ sim = 0
    /\ conf = "AFC"
    /\ gi = 1
    /\ wc_winners = NoWinners
    /\ div_winners = NoWinners
    /\ results = EmptyResults
    /\ counts = EmptyCounts
    /\ prob_df = <<>>
    /\ games = <<>>
    /\ run = 1
    /\ prev = <<>>

InitElo ==
    /\ IdleSim
    /\ IdleProb
    /\ epc = "initialize"
    /\ df \in Histories
    /\ k_factor = 30
    /\ elo_hfa \in HfaValues
    /\ elo_ratings = <<>>
    /\ elo_start = <<>>
    /\ game_log = <<>>
    /\ idx = 1

InitializeElo ==
    /\ UNCHANGED <<simvars, probvars>>
    /\ epc = "initialize"
    /\ elo_ratings' = initialize_elo_ratings(df)
    /\ elo_start' = initialize_elo_ratings(df)
    /\ epc' = "update"
    /\ UNCHANGED <<df, k_factor, elo_hfa, game_log, idx>>

\* one iteration of the loop of update_elo_ratings
UpdateElo ==
    /\ UNCHANGED <<simvars, probvars>>
    /\ epc = "update"
    /\ idx <= Len(df)
    /\ LET rec == elo_update(elo_ratings, df[idx], k_factor, elo_hfa)
       IN  /\ game_log' = Append(game_log, rec)
           /\ elo_ratings' =
                  [[elo_ratings EXCEPT ![rec.home_team] = rec.elo_home_after]
                       EXCEPT ![rec.away_team] = rec.elo_away_after]
    /\ idx' = idx + 1
    /\ UNCHANGED <<epc, df, k_factor, elo_hfa, elo_start>>

\* the loop is over: update_elo_ratings returns
ReturnElo ==
    /\ UNCHANGED <<simvars, probvars>>
    /\ epc = "update"
    /\ idx > Len(df)
    /\ epc' = "done"
    /\ UNCHANGED <<df, k_factor, elo_hfa, elo_ratings, elo_start, game_log, idx>>

NextElo ==
    \/ InitializeElo
    \/ UpdateElo
    \/ ReturnElo

SpecElo == InitElo /\ [][NextElo]_vars

----------------------------------------------------------------------------
(* compute_win_probability called for a neutral site, both ways round *)

RatingGrid == {(1300 + 25 * i) * RatingScale : i \in 0..MaxGrid}

InitProb ==
    /\ IdleSim
    /\ IdleElo
    /\ wpc = "call"
    /\ wp_a \in RatingGrid
    /\ wp_b \in RatingGrid
    /\ wp_h \in HfaValues
    /\ wp_ab = 0
    /\ wp_ba = 0

NeutralBothWays ==
    /\ UNCHANGED <<simvars, elovars>>
    /\ wpc = "call"
    /\ wp_ab' = compute_win_probability(wp_a, wp_b, wp_h, TRUE)
    /\ wp_ba' = compute_win_probability(wp_b, wp_a, wp_h, TRUE)
    /\ wpc' = "done"
    /\ UNCHANGED <<wp_a, wp_b, wp_h>>

NextProb == NeutralBothWays

SpecProb == InitProb /\ [][NextProb]_vars

----------------------------------------------------------------------------
(* Vocabulary of the properties *)

SeedOf(c, t) == CHOOSE s \in 1..7 : PLAYOFF_SEEDS[c][s] = t

TeamOf(c, s) == PLAYOFF_SEEDS[c][s]

\* the games of one round of one conference in trial k, in playing order
TrialGames(k, c, round) ==
    SelectSeq(games, LAMBDA g : g.sim = k /\ g.conf = c /\ g.round = round)

Winners(gs) == {gs[i].winner : i \in 1..Len(gs)}

\* the seeds that survive the wild-card round of conference c in trial k
SurvivorSeeds(k, c) ==
    {1} \cup {SeedOf(c, t) : t \in Winners(TrialGames(k, c, "wild_card"))}

IsPrefix(a, b) == Len(a) <= Len(b) /\ a = SubSeq(b, 1, Len(a))

CounterSum(field) ==
    SumOver([t \in DOMAIN counts.val |-> counts.val[t][field]], DOMAIN counts.val)

PctSum(col) ==
    SumOver([i \in 1..Len(prob_df) |-> prob_df[i][col].num], 1..Len(prob_df))

\* 1 / (1 + 10 ** (-diff / 400)) as a function of the rating difference alone
Logistic(diff) == (PScale * 1000) \div (1000 + Pow10Of(-diff))

WildCardPairs == {<<2, 7>>, <<3, 6>>, <<4, 5>>}

\* the trial of the game resolved last
LastTrial == games[Len(games)].sim

----------------------------------------------------------------------------
(* C1 - champion counters *)

\* C1: one champion is recorded per completed trial, so the champion counters
\* of all teams add up to the number of completed trials, and when
\* run_simulations has returned (N > 0 trials) they add up to N and the
\* pct_win_superbowl column adds up to 1.
C1_ChampionsSumToN ==
    /\ CounterSum("champion") = sim
    /\ pc = "done" =>
          /\ sim = num_sims
          /\ num_sims > 0
          /\ \A i \in 1..Len(prob_df) : prob_df[i].pct_win_superbowl.den = num_sims
          /\ PctSum("pct_win_superbowl") = num_sims

C1_Witness ==
    /\ pc = "done"
    /\ num_sims >= 2
    /\ Cardinality({t \in DOMAIN counts.val : counts.val[t].champion > 0}) >= 2

----------------------------------------------------------------------------
(* C2 - monotone milestones *)

\* C2: for every team, at every moment of a run, champion <= super_bowl <=
\* conf_champ <= divisional, and the four columns of every row of the
\* probability table are ordered the same way.
C2_MilestonesMonotone ==
    /\ \A t \in DOMAIN counts.val :
          /\ counts.val[t].champion <= counts.val[t].super_bowl
          /\ counts.val[t].super_bowl <= counts.val[t].conf_champ
          /\ counts.val[t].conf_champ <= counts.val[t].divisional
    /\ \A i \in 1..Len(prob_df) :
          /\ prob_df[i].pct_win_superbowl.num <= prob_df[i].pct_make_superbowl.num
          /\ prob_df[i].pct_make_superbowl.num <= prob_df[i].pct_make_conf_champ.num
          /\ prob_df[i].pct_make_conf_champ.num <= prob_df[i].pct_make_divisional.num
          /\ prob_df[i].pct_win_superbowl.den = prob_df[i].pct_make_divisional.den
          /\ prob_df[i].pct_make_superbowl.den = prob_df[i].pct_make_divisional.den
          /\ prob_df[i].pct_make_conf_champ.den = prob_df[i].pct_make_divisional.den

C2_Witness ==
    /\ pc = "done"
    /\ \E i \in 1..Len(prob_df) :
          /\ 0 < prob_df[i].pct_win_superbowl.num
          /\ prob_df[i].pct_win_superbowl.num < prob_df[i].pct_make_superbowl.num
    /\ \E i \in 1..Len(prob_df) :
          /\ 0 < prob_df[i].pct_make_conf_champ.num
          /\ prob_df[i].pct_make_conf_champ.num < prob_df[i].pct_make_divisional.num

----------------------------------------------------------------------------
(* C3 - reproducibility *)

\* C3: a second run of the same command line with a seed given resolves the
\* same games with the same winners in the same order as the first run, and
\* returns the same probability table.
C3_SeededRunsAgree ==
    (run >= 2 /\ seed # <<>>) =>
        /\ IsPrefix(games, prev[1].games)
        /\ pc = "done" => (games = prev[1].games /\ prob_df = prev[1].prob_df)

C3_Witness ==
    /\ run >= 2
    /\ seed # <<>>
    /\ pc = "done"
    /\ num_sims >= 2
    /\ games = prev[1].games
    /\ Len(games) = 13 * num_sims

----------------------------------------------------------------------------
(* C4 - zero-sum rating transfer *)

\* C4: every audit record moves the home rating by delta and the away rating
\* by -delta, and after any number of processed matches the ratings add up to
\* initial_elo times the number of teams in the table.
C4_ZeroSum ==
    /\ \A i \in 1..Len(game_log) :
          /\ game_log[i].elo_home_after - game_log[i].elo_home_before
                = game_log[i].delta
          /\ game_log[i].elo_away_after - game_log[i].elo_away_before
                = -game_log[i].delta
    /\ epc \in {"update", "done"} =>
          SumOver(elo_ratings, DOMAIN elo_ratings)
             = initial_elo * RatingScale * Cardinality(DOMAIN elo_ratings)

C4_Witness ==
    /\ epc = "done"
    /\ Len(game_log) >= 3
    /\ Cardinality(DOMAIN elo_ratings) = 3
    /\ \A t \in DOMAIN elo_ratings : elo_ratings[t] # initial_elo * RatingScale
    /\ \A i \in 1..Len(game_log) : game_log[i].delta # 0

----------------------------------------------------------------------------
(* C5 - wild-card round *)

\* C5: every wild-card game pairs seeds (2,7), (3,6) or (4,5) of one
\* conference with the lower seed number at home, and the list returned by
\* simulate_wild_card holds 4 distinct teams of that conference: the seed-1
\* team and exactly one team of each pairing.
C5_WildCardSurvivors ==
    /\ \A i \in 1..Len(games) :
          games[i].round = "wild_card" =>
              \E pr \in WildCardPairs :
                  /\ pr[1] < pr[2]
                  /\ games[i].home = TeamOf(games[i].conf, pr[1])
                  /\ games[i].away = TeamOf(games[i].conf, pr[2])
    /\ \A c \in Conferences :
          LET w == wc_winners[c]
          IN  /\ Len(w) <= 4
              /\ (pc = "wild_card" /\ conf = c /\ gi > 1) => Len(w) = gi
              /\ (pc \in {"divisional", "conf_champ"} /\ conf = c) => Len(w) = 4
              /\ Len(w) = 4 =>
                    /\ Cardinality(Range(w)) = 4
                    /\ Range(w) \subseteq SeedTeams(c)
                    /\ TeamOf(c, 1) \in Range(w)
                    /\ \A pr \in WildCardPairs :
                          Cardinality(Range(w) \cap
                              {TeamOf(c, pr[1]), TeamOf(c, pr[2])}) = 1
                    /\ Len(TrialGames(LastTrial, c, "wild_card")) = 3
                    /\ Range(w) = {TeamOf(c, 1)} \cup
                                  Winners(TrialGames(LastTrial, c, "wild_card"))

C5_Witness ==
    /\ pc = "divisional"
    /\ conf = "NFC"
    /\ Range(wc_winners["NFC"]) = {"SEA", "GB", "PHI", "LA"}
    /\ Len(wc_winners["AFC"]) = 4
    /\ "NE" \in Range(wc_winners["AFC"])

----------------------------------------------------------------------------
(* C6 - divisional reseeding *)

\* the example of the claim, as a direct call of the pairing logic: a list
\* of survivors with seeds {1,2,4,7} gives 1 hosts 7 and 2 hosts 4
C6_Example ==
    LET m == divisional_pairing(<<"DEN", "NE", "PIT", "LAC">>, seeds["AFC"])
    IN  /\ m.ok
        /\ m.seed_1_team = "DEN" /\ m.lowest_team = "LAC"
        /\ m.team_higher = "NE" /\ m.team_lower = "PIT"

\* C6: in every trial and conference the first divisional game is hosted by
\* the seed-1 team against the survivor with the largest seed number, the
\* second is played by the other two survivors with the smaller seed number
\* at home, and the two games together involve each of the four survivors
\* exactly once.
C6_DivisionalReseeding ==
    /\ C6_Example
    /\ \A k \in 0..sim : \A c \in Conferences :
           LET d    == TrialGames(k, c, "divisional")
               ss   == SurvivorSeeds(k, c)
               rest == ss \ {1, SetMax(ss)}
           IN  /\ Len(d) <= 2
               /\ Len(d) >= 1 =>
                     /\ Len(TrialGames(k, c, "wild_card")) = 3
                     /\ d[1].home = TeamOf(c, 1)
                     /\ d[1].away = TeamOf(c, SetMax(ss))
               /\ Len(d) = 2 =>
                     /\ d[2].home = TeamOf(c, SetMin(rest))
                     /\ d[2].away = TeamOf(c, SetMax(rest))
                     /\ SeedOf(c, d[2].home) < SeedOf(c, d[2].away)
                     /\ Cardinality({d[1].home, d[1].away, d[2].home, d[2].away}) = 4
                     /\ {SeedOf(c, t) : t \in {d[1].home, d[1].away,
                                               d[2].home, d[2].away}} = ss

\* survivors {1,4,6,7} of a resolved bracket: 1 hosts 7 and 4 hosts 6
C6_Witness ==
    \E k \in 0..sim :
        LET d == TrialGames(k, "AFC", "divisional")
        IN  /\ SurvivorSeeds(k, "AFC") = {1, 4, 6, 7}
            /\ Len(d) = 2
            /\ d[1].home = "DEN" /\ d[1].away = "LAC"
            /\ d[2].home = "PIT" /\ d[2].away = "BUF"

----------------------------------------------------------------------------
(* C7 - conference championship *)

\* C7: in every trial and conference at most one conference championship
\* game is played; it is played by the two divisional winners, the one with
\* the smaller seed number at home, and its winner is one of the two and is
\* the team entered for the Super Bowl.
C7_ConferenceChampionship ==
    /\ \A k \in 0..sim : \A c \in Conferences :
          LET cc == TrialGames(k, c, "conf_champ")
              d  == TrialGames(k, c, "divisional")
          IN  /\ Len(cc) <= 1
              /\ Len(cc) = 1 =>
                    /\ Len(d) = 2
                    /\ {cc[1].home, cc[1].away} = Winners(d)
                    /\ SeedOf(c, cc[1].home) < SeedOf(c, cc[1].away)
                    /\ cc[1].winner \in Winners(d)
    /\ \A i \in 1..Len(games) :
          games[i].round = "super_bowl" =>
              /\ Len(TrialGames(games[i].sim, "AFC", "conf_champ")) = 1
              /\ Len(TrialGames(games[i].sim, "NFC", "conf_champ")) = 1
              /\ games[i].home =
                    TrialGames(games[i].sim, "AFC", "conf_champ")[1].winner
              /\ games[i].away =
                    TrialGames(games[i].sim, "NFC", "conf_champ")[1].winner

\* a conference championship without the seed-1 team, won by the visitor
C7_Witness ==
    \E i \in 1..Len(games) :
        /\ games[i].round = "conf_champ"
        /\ SeedOf(games[i].conf, games[i].home) > 1
        /\ games[i].winner = games[i].away
        /\ pc = "done"

----------------------------------------------------------------------------
(* C8 - neutral-site Super Bowl *)

\* C8: the probability used in the Super Bowl is the logistic function of
\* the difference of the two champions' ratings alone, whatever the home
\* advantage is; in every other game it is the logistic function of the
\* difference after the home advantage is added to the home team's rating.
C8_NeutralSuperBowl ==
    \A i \in 1..Len(games) :
        LET g == games[i]
            e_home == elo_dict[g.home]
            e_away == elo_dict[g.away]
        IN  IF g.round = "super_bowl"
            THEN g.neutral /\ g.p = Logistic(e_home - e_away)
            ELSE ~g.neutral /\
                 g.p = Logistic(e_home + hfa * RatingScale - e_away)

\* a Super Bowl played with a home advantage that would have changed p
C8_Witness ==
    /\ hfa > 0
    /\ \E i \in 1..Len(games) :
          /\ games[i].round = "super_bowl"
          /\ games[i].p # Logistic(elo_dict[games[i].home]
                                   + hfa * RatingScale - elo_dict[games[i].away])
    /\ \E i \in 1..Len(games) :
          /\ games[i].round = "divisional"
          /\ games[i].p # Logistic(elo_dict[games[i].home] - elo_dict[games[i].away])

----------------------------------------------------------------------------
(* C9 - malformed Seeding *)

ValidSeeding(sd) ==
    \A c \in Conferences :
        /\ DOMAIN sd[c] = 1..7
        /\ Cardinality({sd[c][s] : s \in DOMAIN sd[c]}) = 7

\* C9: a Seeding with a duplicate team or a missing seed is rejected before
\* any game is played: no draw is consumed, no game is resolved, no counter
\* is touched and the run does not complete.
C9_MalformedSeedingRejected ==
    ~ValidSeeding(seeds) =>
        /\ draws = 0
        /\ games = <<>>
        /\ counts = EmptyCounts
        /\ pc # "done"

----------------------------------------------------------------------------
(* C10 - team missing from the rating table *)

MissingRating == \E t \in AllSeeded : t \notin DOMAIN elo_dict

\* C10: when a seeded team has no rating the run does not complete, and the
\* error is raised before any game is resolved and before any draw is
\* consumed.
C10_MissingRatingFailsFast ==
    MissingRating =>
        /\ draws = 0
        /\ games = <<>>
        /\ pc # "done"

----------------------------------------------------------------------------
(* C11 - rows of the probability table *)

TableTeams == {prob_df[i].team : i \in 1..Len(prob_df)}

\* C11: the table returned by run_simulations has exactly one row for each
\* of the 14 seeded teams, whatever the outcomes of the games were.
C11_OneRowPerSeededTeam ==
    pc = "done" =>
        /\ Len(prob_df) = 14
        /\ TableTeams = AllSeeded

----------------------------------------------------------------------------
(* C12 - audit log *)

\* the rating of team t left by the first i - 1 audit records
RatingBefore(i, t) ==
    LET J == {j \in 1..(i - 1) :
                 game_log[j].home_team = t \/ game_log[j].away_team = t}
    IN  IF J = {} THEN initial_elo * RatingScale
        ELSE LET j == SetMax(J)
             IN  IF game_log[j].home_team = t
                 THEN game_log[j].elo_home_after
                 ELSE game_log[j].elo_away_after

\* C12: the audit log has one record per processed match, in the order of
\* the input (its length is the number of input matches when the engine
\* returns); record i describes match i, and its pre-update ratings are the
\* ratings left by the records before it.
C12_AuditLogInOrder ==
    /\ epc \in {"update", "done"} => Len(game_log) = idx - 1
    /\ epc = "done" => Len(game_log) = Len(df)
    /\ Len(game_log) <= Len(df)
    /\ \A i \in 1..Len(game_log) :
          /\ game_log[i].home_team = df[i].home_team
          /\ game_log[i].away_team = df[i].away_team
          /\ game_log[i].home_score = df[i].home_score
          /\ game_log[i].away_score = df[i].away_score
          /\ game_log[i].elo_home_before = RatingBefore(i, df[i].home_team)
          /\ game_log[i].elo_away_before = RatingBefore(i, df[i].away_team)
    /\ epc \in {"update", "done"} =>
          \A t \in DOMAIN elo_ratings :
              elo_ratings[t] = RatingBefore(Len(game_log) + 1, t)

\* three matches of one team, the third rated from what the first two left
C12_Witness ==
    /\ epc = "done"
    /\ Len(game_log) >= 3
    /\ df[1].home_team = df[2].away_team
    /\ df[3].home_team = df[1].home_team
    /\ df[1] # df[2]
    /\ game_log[2].elo_away_before # initial_elo * RatingScale
    /\ game_log[3].elo_home_before # game_log[2].elo_away_before
    /\ game_log[3].elo_home_before # initial_elo * RatingScale

----------------------------------------------------------------------------
(* C13 - ties *)

\* C13: the outcome indicator of a record is 1 exactly when the home score
\* is strictly greater than the away score; a tie is rated as an away win:
\* the indicator is 0, the home rating does not go up and the away rating
\* does not go down.
C13_TieIsAwayWin ==
    \A i \in 1..Len(game_log) :
        LET g == game_log[i]
        IN  /\ g.actual_home_win \in {0, 1}
            /\ g.actual_home_win = 1 <=> g.home_score > g.away_score
            /\ g.home_score = g.away_score =>
                  /\ g.actual_home_win = 0
                  /\ g.elo_home_after <= g.elo_home_before
                  /\ g.elo_away_after >= g.elo_away_before

C13_Witness ==
    \E i \in 1..Len(game_log) :
        /\ game_log[i].home_score = game_log[i].away_score
        /\ game_log[i].elo_home_after < game_log[i].elo_home_before
        /\ elo_ratings[game_log[i].away_team] > initial_elo * RatingScale

----------------------------------------------------------------------------
(* C14 - one draw per game, strict comparison *)

\* C14: every resolved game has consumed exactly one variate, the one that
\* follows the variate of the game before it; the winner is the home team
\* exactly when that variate is strictly below p, and the away team
\* otherwise.
C14_OneDrawStrictlyBelow ==
    /\ draws = Len(games)
    /\ games # <<>> => rng = games[Len(games)].u
    /\ \A i \in 1..Len(games) :
          LET g == games[i]
          IN  /\ g.winner \in {g.home, g.away}
              /\ g.home # g.away
              /\ g.winner = g.home <=> g.u * PScale < g.p * RngMod
              /\ i > 1 => g.u = NextRng(games[i - 1].u)

\* a game whose variate is exactly p: the away team wins
C14_Witness ==
    \E i \in 1..Len(games) :
        /\ games[i].u * PScale = games[i].p * RngMod
        /\ games[i].winner = games[i].away
        /\ draws = i

----------------------------------------------------------------------------
(* C15 - read-only inputs *)

\* C15: no step of a run changes the rating table or the Seeding.
C15_InputsReadOnly ==
    [][elo_dict' = elo_dict /\ seeds' = seeds]_vars

C15_Witness ==
    /\ pc = "done"
    /\ sim >= 2
    /\ elo_dict = EloSeason
    /\ seeds = PLAYOFF_SEEDS
    /\ Len(games) >= 26

----------------------------------------------------------------------------
(* C16 - order of the stages *)

\* the 13 games of one trial, in the order in which they are resolved
BracketOrder ==
    <<<<"wild_card", "AFC">>, <<"wild_card", "AFC">>, <<"wild_card", "AFC">>,
      <<"divisional", "AFC">>, <<"divisional", "AFC">>, <<"conf_champ", "AFC">>,
      <<"wild_card", "NFC">>, <<"wild_card", "NFC">>, <<"wild_card", "NFC">>,
      <<"divisional", "NFC">>, <<"divisional", "NFC">>, <<"conf_champ", "NFC">>,
      <<"super_bowl", "SB">>>>

\* C16: the games of every trial are resolved in the order wild card (3),
\* divisional (2), conference championship (1) for each conference and then
\* the Super Bowl; the program is at the stage of the game that comes next,
\* a completed trial has exactly 13 games and ends with a champion.
C16_StagesInOrder ==
    /\ \A i \in 1..Len(games) :
          /\ games[i].sim = (i - 1) \div 13
          /\ <<games[i].round, games[i].conf>> = BracketOrder[((i - 1) % 13) + 1]
    /\ pc \in {"wild_card", "divisional", "conf_champ", "super_bowl"} =>
          /\ Len(games) \div 13 = sim
          /\ pc = BracketOrder[(Len(games) % 13) + 1][1]
          /\ pc # "super_bowl" => conf = BracketOrder[(Len(games) % 13) + 1][2]
    /\ pc \in {"bracket", "convert", "done"} =>
          /\ Len(games) = 13 * sim
          /\ sim > 0 =>
                /\ games[Len(games)].round = "super_bowl"
                /\ results.champion = games[Len(games)].winner
    /\ pc = "done" => Len(games) = 13 * num_sims

C16_Witness ==
    /\ pc = "done"
    /\ num_sims >= 2
    /\ Len(games) = 13 * num_sims
    /\ results.champion \in AllSeeded

----------------------------------------------------------------------------
(* C17 - neutral-site antisymmetry *)

\* the largest rounding error of the sum in the arithmetic of the model
RoundingTolerance == PScale \div 125

====
